---- MODULE Spec2Model ----
(***************************************************************************)
(* Reversi: the board rules and the four game loops of the repository.     *)
(*   main.py            class Board / Game, two humans                     *)
(*   reversi.py         class Board / HumanPlayer / AIPlayer / Game        *)
(*   not_use_numpy.py   functions can_flip / make_move / game_loop         *)
(*   unnamed/part_000   ("main copy.py") the same functions on numpy       *)
(***************************************************************************)
EXTENDS Integers, Sequences, FiniteSets, TLC

(***************************************************************************)
(* Constants of the program.                                               *)
(***************************************************************************)
BLACK == 1
WHITE == -1
EMPTY == 0

DIRECTIONS ==
    << <<0, 1>>, <<1, 0>>, <<0, -1>>, <<-1, 0>>,
       <<1, 1>>, <<1, -1>>, <<-1, 1>>, <<-1, -1>> >>

Colors == {BLACK, WHITE}
Rows == 0 .. 7
Cols == 0 .. 7

(***************************************************************************)
(* Board                                                                   *)
(***************************************************************************)
\* create_board with the two colors of the centre exchanged.
create_board_swapped ==
    [row \in Rows |-> [col \in Cols |->
        IF <<row, col>> \in {<<3, 3>>, <<4, 4>>} THEN BLACK
        ELSE IF <<row, col>> \in {<<3, 4>>, <<4, 3>>} THEN WHITE
        ELSE EMPTY]]

\* board[row][col]; np.zeros((8, 8)) with the four centre stones.
create_board ==
    [row \in Rows |-> [col \in Cols |->
        IF <<row, col>> \in {<<3, 3>>, <<4, 4>>} THEN WHITE
        ELSE IF <<row, col>> \in {<<3, 4>>, <<4, 3>>} THEN BLACK
        ELSE EMPTY]]

is_on_board(row, col) == 0 <= row /\ row < 8 /\ 0 <= col /\ col < 8

\* The while loop of one ray: walks from (n_row, n_col) along d over the
\* opponent's stones; yields the cell it stopped on and the stones passed.
RECURSIVE scan_ray(_, _, _, _, _, _)
scan_ray(b, n_row, n_col, d, opponent_color, temp_flip) ==
    IF is_on_board(n_row, n_col) /\ b[n_row][n_col] = opponent_color
    THEN scan_ray(b, n_row + d[1], n_col + d[2], d, opponent_color,
                  Append(temp_flip, <<n_row, n_col>>))
    ELSE [n_row |-> n_row, n_col |-> n_col, temp_flip |-> temp_flip]

\* ray_flips without the test that the ray ends on a stone of the mover.
ray_flips_unclosed(b, row, col, current_color, d) ==
    scan_ray(b, row + d[1], col + d[2], d, -current_color, << >>).temp_flip

\* One pass of the for loop over DIRECTIONS in get_stones_to_flip.
ray_flips(b, row, col, current_color, d) ==
    LET r == scan_ray(b, row + d[1], col + d[2], d, -current_color, << >>)
    IN  IF /\ is_on_board(r.n_row, r.n_col)
           /\ b[r.n_row][r.n_col] = current_color
           /\ r.temp_flip # << >>
        THEN r.temp_flip
        ELSE << >>

\* stones_to_flip.extend(temp_flip) over the eight DIRECTIONS, in their order.
get_stones_to_flip(b, row, col, current_color) ==
    ray_flips(b, row, col, current_color, DIRECTIONS[1])
    \o ray_flips(b, row, col, current_color, DIRECTIONS[2])
    \o ray_flips(b, row, col, current_color, DIRECTIONS[3])
    \o ray_flips(b, row, col, current_color, DIRECTIONS[4])
    \o ray_flips(b, row, col, current_color, DIRECTIONS[5])
    \o ray_flips(b, row, col, current_color, DIRECTIONS[6])
    \o ray_flips(b, row, col, current_color, DIRECTIONS[7])
    \o ray_flips(b, row, col, current_color, DIRECTIONS[8])

\* can_flip without the test that the cell is empty.
can_flip_occupied(b, row, col, current_color) ==
    Len(get_stones_to_flip(b, row, col, current_color)) > 0

can_flip(b, row, col, current_color) ==
    IF b[row][col] # EMPTY THEN FALSE
    ELSE Len(get_stones_to_flip(b, row, col, current_color)) > 0

\* board[row][col] = current_color, one cell.
set_stone(b, row, col, current_color) ==
    [b EXCEPT ![row][col] = current_color]

\* for flip_row, flip_col in stones: board[flip_row][flip_col] = current_color
RECURSIVE flip_all(_, _, _)
flip_all(b, stones, current_color) ==
    IF stones = << >> THEN b
    ELSE flip_all(set_stone(b, Head(stones)[1], Head(stones)[2], current_color),
                  Tail(stones), current_color)

\* Board.place_and_flip_stones of reversi.py (main.py's is the same text):
\* the returned flag and the board it leaves.
place_and_flip_stones(b, row, col, current_color) ==
    LET stones_to_flip == get_stones_to_flip(b, row, col, current_color)
    IN  IF stones_to_flip = << >>
        THEN [ok |-> FALSE, board |-> b]
        ELSE [ok |-> TRUE,
              board |-> flip_all(set_stone(b, row, col, current_color),
                                 stones_to_flip, current_color)]

\* The cells of the board in row-major order, as the two nested range(8) loops
\* visit them.
cell_at(i) == << (i - 1) \div 8, (i - 1) % 8 >>

AllCells == [i \in 1 .. 64 |-> cell_at(i)]

\* The (row, col) of the nested loops for which can_flip holds, in their order.
find_valid_positions(b, current_color) ==
    SelectSeq(AllCells, LAMBDA p : can_flip(b, p[1], p[2], current_color))

(***************************************************************************)
(* not_use_numpy.py and part_000: can_flip / make_move as functions        *)
(***************************************************************************)
\* can_flip of not_use_numpy.py: returns at the first direction that closes.
fn_ray_closes(b, x, y, current_color, d) ==
    LET r == scan_ray(b, x + d[1], y + d[2], d, -current_color, << >>)
    IN  /\ is_on_board(r.n_row, r.n_col)
        /\ b[r.n_row][r.n_col] = current_color
        /\ r.temp_flip # << >>

fn_can_flip(b, x, y, current_color) ==
    IF b[x][y] # EMPTY THEN FALSE
    ELSE \E i \in 1 .. Len(DIRECTIONS) :
             fn_ray_closes(b, x, y, current_color, DIRECTIONS[i])

\* make_move_dir without the test that the ray stops on the mover's stone.
make_move_dir_unclosed(b, x, y, current_color, d) ==
    LET r == scan_ray(b, x + d[1], y + d[2], d, -current_color, << >>)
    IN  flip_all(b, r.temp_flip, current_color)

\* One pass of make_move's for loop: the ray is scanned on the board as the
\* earlier directions left it, and flipped when it stops on the mover's stone.
make_move_dir(b, x, y, current_color, d) ==
    LET r == scan_ray(b, x + d[1], y + d[2], d, -current_color, << >>)
    IN  IF is_on_board(r.n_row, r.n_col) /\ b[r.n_row][r.n_col] = current_color
        THEN flip_all(b, r.temp_flip, current_color)
        ELSE b

\* The for loop over DIRECTIONS from its i-th entry on; each pass works on
\* the board the pass before it left.
RECURSIVE make_move_from(_, _, _, _, _)
make_move_from(b, x, y, current_color, i) ==
    IF i > Len(DIRECTIONS) THEN b
    ELSE make_move_from(make_move_dir(b, x, y, current_color, DIRECTIONS[i]),
                        x, y, current_color, i + 1)

\* make_move without the can_flip test at its head.
make_move_unchecked(b, x, y, current_color) ==
    [ok |-> TRUE,
     board |-> make_move_from(set_stone(b, x, y, current_color),
                              x, y, current_color, 1)]

make_move(b, x, y, current_color) ==
    IF ~ fn_can_flip(b, x, y, current_color)
    THEN [ok |-> FALSE, board |-> b]
    ELSE [ok |-> TRUE,
          board |-> make_move_from(set_stone(b, x, y, current_color),
                                   x, y, current_color, 1)]

has_valid_moves(b, current_color) ==
    \E x \in Rows : \E y \in Cols : fn_can_flip(b, x, y, current_color)

\* The list comprehension over range(8) x range(8), filtered by can_flip.
get_valid_moves(b, current_color) ==
    SelectSeq(AllCells, LAMBDA p : fn_can_flip(b, p[1], p[2], current_color))

(***************************************************************************)
(* The subscripts a ray scan uses on the board                             *)
(***************************************************************************)
\* The two operands of the `and` exchanged: the cell is read before the test.
unguarded_read(n_row, n_col) == << <<n_row, n_col>> >>

\* `is_on_board(n_row, n_col) and board[n_row][n_col] == ...`: `and` evaluates
\* the read of the cell only when is_on_board is true.  The subscripts read.
guarded_read(n_row, n_col) ==
    IF is_on_board(n_row, n_col) THEN << <<n_row, n_col>> >> ELSE << >>

\* The subscripts the while loop of one ray reads: each test of its condition
\* is one guarded read, and the loop goes on while the cell holds the
\* opponent's stone.
RECURSIVE scan_ray_reads(_, _, _, _, _)
scan_ray_reads(b, n_row, n_col, d, opponent_color) ==
    guarded_read(n_row, n_col)
    \o (IF is_on_board(n_row, n_col) /\ b[n_row][n_col] = opponent_color
        THEN scan_ray_reads(b, n_row + d[1], n_col + d[2], d, opponent_color)
        ELSE << >>)

\* One pass of the for loop over DIRECTIONS: the while loop, then the `if` on
\* the cell the loop stopped on.
ray_reads(b, row, col, current_color, d) ==
    LET r == scan_ray(b, row + d[1], col + d[2], d, -current_color, << >>)
    IN  scan_ray_reads(b, row + d[1], col + d[2], d, -current_color)
        \o guarded_read(r.n_row, r.n_col)

\* Board.get_stones_to_flip: the reads of the eight passes, in their order.
get_stones_to_flip_reads(b, row, col, current_color) ==
    ray_reads(b, row, col, current_color, DIRECTIONS[1])
    \o ray_reads(b, row, col, current_color, DIRECTIONS[2])
    \o ray_reads(b, row, col, current_color, DIRECTIONS[3])
    \o ray_reads(b, row, col, current_color, DIRECTIONS[4])
    \o ray_reads(b, row, col, current_color, DIRECTIONS[5])
    \o ray_reads(b, row, col, current_color, DIRECTIONS[6])
    \o ray_reads(b, row, col, current_color, DIRECTIONS[7])
    \o ray_reads(b, row, col, current_color, DIRECTIONS[8])

\* Board.can_flip: the cell itself, then get_stones_to_flip when it is empty.
can_flip_reads(b, row, col, current_color) ==
    << <<row, col>> >>
    \o (IF b[row][col] # EMPTY THEN << >>
        ELSE get_stones_to_flip_reads(b, row, col, current_color))

\* Board.place_and_flip_stones: the reads of get_stones_to_flip, then the
\* writes of the played cell and of stones_to_flip.
place_and_flip_stones_accesses(b, row, col, current_color) ==
    LET stones_to_flip == get_stones_to_flip(b, row, col, current_color)
    IN  get_stones_to_flip_reads(b, row, col, current_color)
        \o (IF stones_to_flip = << >> THEN << >>
            ELSE << <<row, col>> >> \o stones_to_flip)

\* can_flip of not_use_numpy.py from its i-th direction on: it returns at the
\* first direction that closes.
RECURSIVE fn_can_flip_reads_from(_, _, _, _, _)
fn_can_flip_reads_from(b, x, y, current_color, i) ==
    IF i > Len(DIRECTIONS) THEN << >>
    ELSE ray_reads(b, x, y, current_color, DIRECTIONS[i])
         \o (IF fn_ray_closes(b, x, y, current_color, DIRECTIONS[i]) THEN << >>
             ELSE fn_can_flip_reads_from(b, x, y, current_color, i + 1))

fn_can_flip_reads(b, x, y, current_color) ==
    << <<x, y>> >>
    \o (IF b[x][y] # EMPTY THEN << >>
        ELSE fn_can_flip_reads_from(b, x, y, current_color, 1))

\* make_move's for loop from its i-th direction on: the reads of the scan on
\* the board the earlier passes left, then the writes of the stones flipped.
RECURSIVE make_move_from_accesses(_, _, _, _, _)
make_move_from_accesses(b, x, y, current_color, i) ==
    IF i > Len(DIRECTIONS) THEN << >>
    ELSE LET d == DIRECTIONS[i]
             r == scan_ray(b, x + d[1], y + d[2], d, -current_color, << >>)
         IN  ray_reads(b, x, y, current_color, d)
             \o (IF is_on_board(r.n_row, r.n_col)
                    /\ b[r.n_row][r.n_col] = current_color
                 THEN r.temp_flip ELSE << >>)
             \o make_move_from_accesses(
                    make_move_dir(b, x, y, current_color, d),
                    x, y, current_color, i + 1)

\* make_move: can_flip, the write of the played cell, the for loop.
make_move_accesses(b, x, y, current_color) ==
    fn_can_flip_reads(b, x, y, current_color)
    \o (IF ~ fn_can_flip(b, x, y, current_color) THEN << >>
        ELSE << <<x, y>> >>
             \o make_move_from_accesses(set_stone(b, x, y, current_color),
                                        x, y, current_color, 1))

(***************************************************************************)
(* reversi.py: the AI players                                              *)
(***************************************************************************)
EasyAIPlayer_priority_matrix ==
    << <<0, 0, 0, 0, 0, 0, 0, 0>>,
       <<0, 1, 1, 1, 1, 1, 1, 0>>,
       <<0, 1, 1, 1, 1, 1, 1, 0>>,
       <<0, 1, 1, 1, 1, 1, 1, 0>>,
       <<0, 1, 1, 1, 1, 1, 1, 0>>,
       <<0, 1, 1, 1, 1, 1, 1, 0>>,
       <<0, 1, 1, 1, 1, 1, 1, 0>>,
       <<0, 0, 0, 0, 0, 0, 0, 0>> >>

\* HardAIPlayer's matrix with the cells next to a corner weighted above the
\* inner cells.
HardAIPlayer_priority_matrix_raised ==
    << <<9, 6, 5, 5, 5, 5, 6, 9>>,
       <<6, 6, 3, 3, 3, 3, 6, 6>>,
       <<5, 3, 4, 4, 4, 4, 3, 5>>,
       <<5, 3, 4, 4, 4, 4, 3, 5>>,
       <<5, 3, 4, 4, 4, 4, 3, 5>>,
       <<5, 3, 4, 4, 4, 4, 3, 5>>,
       <<6, 6, 3, 3, 3, 3, 6, 6>>,
       <<9, 6, 5, 5, 5, 5, 6, 9>> >>

HardAIPlayer_priority_matrix ==
    << <<9, 1, 5, 5, 5, 5, 1, 9>>,
       <<1, 0, 3, 3, 3, 3, 0, 1>>,
       <<5, 3, 4, 4, 4, 4, 3, 5>>,
       <<5, 3, 4, 4, 4, 4, 3, 5>>,
       <<5, 3, 4, 4, 4, 4, 3, 5>>,
       <<5, 3, 4, 4, 4, 4, 3, 5>>,
       <<1, 0, 3, 3, 3, 3, 0, 1>>,
       <<9, 1, 5, 5, 5, 5, 1, 9>> >>

\* self.priority_matrix of the player class; Python indexes from 0.
priority_matrix(kind) ==
    IF kind = "easy" THEN EasyAIPlayer_priority_matrix
    ELSE HardAIPlayer_priority_matrix

priority_of(kind, position) ==
    priority_matrix(kind)[position[1] + 1][position[2] + 1]

\* best_from that keeps the list when a higher priority turns up.
RECURSIVE best_from_keep(_, _, _, _, _)
best_from_keep(valid_positions, kind, i, highest_priority, best_positions) ==
    IF i > Len(valid_positions) THEN best_positions
    ELSE LET position == valid_positions[i]
             priority == priority_of(kind, position)
         IN  IF priority >= highest_priority
             THEN best_from_keep(valid_positions, kind, i + 1, priority,
                                 Append(best_positions, position))
             ELSE best_from_keep(valid_positions, kind, i + 1, highest_priority,
                                 best_positions)

\* The for loop of AIPlayer.get_valid_positions over valid_positions, from its
\* i-th element on, with the loop's two locals.
RECURSIVE best_from(_, _, _, _, _)
best_from(valid_positions, kind, i, highest_priority, best_positions) ==
    IF i > Len(valid_positions) THEN best_positions
    ELSE LET position == valid_positions[i]
             priority == priority_of(kind, position)
         IN  IF priority > highest_priority
             THEN best_from(valid_positions, kind, i + 1, priority, << position >>)
             ELSE IF priority = highest_priority
             THEN best_from(valid_positions, kind, i + 1, highest_priority,
                            Append(best_positions, position))
             ELSE best_from(valid_positions, kind, i + 1, highest_priority,
                            best_positions)

select_best_positions(valid_positions, kind) ==
    best_from(valid_positions, kind, 1, -1, << >>)

\* random.choice draws from a pseudo-random generator: rng is the generator's
\* state, next_random one step of it, random_choice the element the new state
\* selects.  Every seed in 0 .. MaxSeed is tried.
next_random(s) == (s * 13 + 7) % 64

random_choice(seq, s) == seq[((s \div 4) % Len(seq)) + 1]

(***************************************************************************)
(* Input: what input() returns                                             *)
(***************************************************************************)
\* A line of input is the pair of integers the text denotes, or << >> for a
\* text that denotes none.  A match's input is one of the Openings followed by
\* at most MaxFree arbitrary lines, and then the end of input.
MaxFree == 1
MaxSeed == 3

AllLines == {<<r, c>> : r \in -1 .. 8, c \in -1 .. 8} \cup {<< >>}

PassLine ==
    << <<2, 3>>, <<2, 2>>, <<2, 1>>, <<1, 1>>, <<4, 5>>, <<2, 0>>, <<0, 0>>,
       <<0, 2>>, <<2, 4>>, <<4, 2>> >>

WipeLine ==
    << <<4, 5>>, <<5, 3>>, <<4, 2>>, <<3, 5>>, <<6, 4>>, <<5, 5>>, <<4, 6>>,
       <<5, 4>>, <<2, 4>> >>

ShortGame ==
    << <<3, 2>>, <<4, 2>>, <<5, 3>>, <<2, 2>>, <<3, 1>>, <<5, 2>>, <<5, 1>>,
       <<3, 5>>, <<2, 1>>, <<6, 2>>, <<4, 1>>, <<4, 0>>, <<6, 1>>, <<2, 0>>,
       <<7, 3>>, <<7, 1>> >>

\* Sixty moves without a pass that fill the board with 32 stones each.
DrawLine ==
    << <<2, 3>>, <<2, 2>>, <<2, 1>>, <<3, 5>>, <<4, 5>>, <<5, 3>>, <<5, 2>>,
       <<1, 1>>, <<5, 4>>, <<5, 5>>, <<4, 6>>, <<1, 3>>, <<0, 0>>, <<5, 1>>,
       <<1, 2>>, <<3, 2>>, <<6, 3>>, <<7, 3>>, <<7, 2>>, <<1, 0>>, <<0, 3>>,
       <<1, 4>>, <<2, 5>>, <<3, 7>>, <<4, 7>>, <<1, 5>>, <<4, 2>>, <<3, 1>>,
       <<0, 2>>, <<6, 5>>, <<4, 1>>, <<6, 2>>, <<6, 4>>, <<0, 1>>, <<0, 5>>,
       <<1, 6>>, <<4, 0>>, <<3, 0>>, <<2, 0>>, <<0, 4>>, <<2, 7>>, <<3, 6>>,
       <<7, 4>>, <<5, 6>>, <<6, 6>>, <<6, 7>>, <<6, 1>>, <<6, 0>>, <<7, 5>>,
       <<0, 7>>, <<1, 7>>, <<2, 4>>, <<5, 0>>, <<7, 0>>, <<2, 6>>, <<7, 6>>,
       <<7, 1>>, <<0, 6>>, <<5, 7>>, <<7, 7>> >>

\* main.py and reversi.py take the third line, a cell Black already holds.
ReplayLine == << <<2, 3>>, <<2, 2>>, <<2, 3>> >>

Openings ==
    { << >>, ReplayLine, PassLine, SubSeq(PassLine, 1, 7), WipeLine, SubSeq(WipeLine, 1, 7),
      ShortGame, SubSeq(ShortGame, 1, 14), DrawLine }

\* main.py 149-151 and reversi.py 218-220: "A-2" is split at '-', the column is
\* looked up in COLUMN_LABELS and the row goes through int().  A column with no
\* label and a row with a sign raise ValueError.
parse_label_line(line) ==
    IF line = << >> \/ line[1] < 0 \/ line[2] < 0 \/ line[2] > 7
    THEN [ok |-> FALSE, row |-> 0, col |-> 0]
    ELSE [ok |-> TRUE, row |-> line[1], col |-> line[2]]

\* not_use_numpy.py 109: "2-1" is split at '-', so neither number has a sign.
parse_dash_line(line) ==
    IF line = << >> \/ line[1] < 0 \/ line[2] < 0
    THEN [ok |-> FALSE, row |-> 0, col |-> 0]
    ELSE [ok |-> TRUE, row |-> line[1], col |-> line[2]]

\* part_000 79: "2 1" is split at white space; int() takes a sign.
parse_space_line(line) ==
    IF line = << >>
    THEN [ok |-> FALSE, row |-> 0, col |-> 0]
    ELSE [ok |-> TRUE, row |-> line[1], col |-> line[2]]

parse_line(v, line) ==
    IF v = "not_use_numpy" THEN parse_dash_line(line) ELSE parse_space_line(line)

\* read_cell without the is_on_board test, the numbers taken as indices that
\* count round the board.
read_cell_unchecked(v, line) ==
    LET in == IF v \in {"main", "reversi"} THEN parse_label_line(line)
              ELSE parse_line(v, line)
    IN  IF in.ok THEN <<in.row % 8, in.col % 8>> ELSE << >>

\* main.py 147-156, reversi.py 216-222, not_use_numpy.py 108-114, part_000
\* 78-84: the cell a line of input makes the loop hand to the board, << >> when
\* the line raises ValueError or IndexError or is_on_board is false.
read_cell(v, line) ==
    LET in == IF v \in {"main", "reversi"} THEN parse_label_line(line)
              ELSE parse_line(v, line)
    IN  IF in.ok /\ is_on_board(in.row, in.col) THEN <<in.row, in.col>> ELSE << >>

(***************************************************************************)
(* State                                                                   *)
(***************************************************************************)
VARIABLES
    variant,               \* which program runs
    players,               \* reversi.py Game.players: the kind of player per color
    board,                 \* Board.board / game_loop's board
    current_player_index,  \* main.py Game.current_player_index
    current_color,         \* reversi.py Game.current_player_color, game_loop's current_color
    pc,                    \* where the game loop stands
    script,                \* the lines of the opening not yet read
    free_left,             \* how many arbitrary lines may still follow
    rng,                   \* state of the pseudo-random generator
    result,                \* what the result display announces
    placed,                \* history: number of accepted placements
    last_move,             \* history: <<row, col, color>> of the last accepted placement
    writer                 \* history: who called the board's mutator last

vars == << variant, players, board, current_player_index, current_color, pc,
           script, free_left, rng, result, placed, last_move, writer >>

Variants == {"main", "reversi", "not_use_numpy", "main_copy"}

\* reversi.py 334-389: the pairs (Black, White) set_players can build.
PlayerConfigs ==
    { <<"human", "human">>, <<"human", "easy">>, <<"human", "hard">>,
      <<"easy", "easy">>, <<"hard", "easy">>, <<"hard", "hard">> }

player_kind(color) == IF color = BLACK THEN players[1] ELSE players[2]

HasHuman(cfg) == cfg[1] = "human" \/ cfg[2] = "human"
AIvsAI == variant = "reversi" /\ players[1] # "human" /\ players[2] # "human"

\* main.py 118-121: players[0] is Black, players[1] is White.
color_of_index(i) == IF i = 0 THEN BLACK ELSE WHITE

\* The color whose turn the loop is serving.
ActiveColor ==
    IF variant = "main" THEN color_of_index(current_player_index)
    ELSE current_color

Init ==
    /\ variant \in Variants
    /\ players \in IF variant = "reversi" THEN PlayerConfigs
                   ELSE {<<"human", "human">>}
    /\ board = create_board
    /\ current_player_index = 0
    /\ current_color = BLACK
    /\ pc = "play"
    /\ script \in IF HasHuman(players) THEN Openings ELSE {<< >>}
    /\ free_left = IF HasHuman(players) THEN MaxFree ELSE 0
    /\ rng \in IF HasHuman(players) THEN {0} ELSE 0 .. MaxSeed
    /\ result = "none"
    /\ placed = 0
    /\ last_move = << >>
    /\ writer = "none"

HasInput == script # << >> \/ free_left > 0

InputLines ==
    IF script # << >> THEN {Head(script)}
    ELSE IF free_left > 0 THEN AllLines
    ELSE {}

ConsumeInput ==
    IF script # << >>
    THEN script' = Tail(script) /\ UNCHANGED free_left
    ELSE free_left' = free_left - 1 /\ UNCHANGED script

\* An accepted placement, with who asked for it.
Record(row, col, color, who) ==
    /\ placed' = placed + 1
    /\ last_move' = <<row, col, color>>
    /\ writer' = who

NoRecord == UNCHANGED << placed, last_move, writer >>

\* except_clause with a handler that catches every exception.
except_clause_bare(v) == {"ValueError", "IndexError", "EOFError"}

\* The exceptions the handler around input() names: main.py 152 and reversi.py
\* 226 "except (ValueError, IndexError)", not_use_numpy.py 110 and part_000 80
\* "except ValueError".
except_clause(v) ==
    IF v \in {"main", "reversi"} THEN {"ValueError", "IndexError"}
    ELSE {"ValueError"}

\* Where the program stands after input() has raised EOFError at pc = at: a
\* handler that catches it goes round the loop again, otherwise the exception
\* leaves the loop and ends the program.
after_EOFError(v, at) ==
    IF "EOFError" \in except_clause(v) THEN at ELSE "aborted"

(***************************************************************************)
(* main.py Game.play                                                       *)
(***************************************************************************)
\* main.py 137-141: switch_turn, then the test that decides break or continue.
main_pass(b, index) ==
    LET switched == 1 - index
    IN  [index |-> switched,
         break |-> find_valid_positions(b, color_of_index(1 - switched)) = << >>]

\* main.py 135-141: the player to move has no valid position.
MainPass ==
    /\ variant = "main" /\ pc = "play"
    /\ find_valid_positions(board, color_of_index(current_player_index)) = << >>
    /\ LET p == main_pass(board, current_player_index)
       IN  /\ current_player_index' = p.index
           /\ pc' = IF p.break THEN "result" ELSE "play"
    /\ NoRecord
    /\ UNCHANGED << variant, players, board, current_color, script, free_left,
                    rng, result >>

\* main.py 147-159: one line is read, parsed and played.
MainInput ==
    /\ variant = "main" /\ pc = "play"
    /\ find_valid_positions(board, color_of_index(current_player_index)) # << >>
    /\ \E line \in InputLines :
         LET cell == read_cell(variant, line)
             color == color_of_index(current_player_index)
         IN  /\ ConsumeInput
             /\ IF cell # << >>
                THEN LET r == place_and_flip_stones(board, cell[1], cell[2], color)
                     IN  IF r.ok
                         THEN /\ board' = r.board
                              /\ current_player_index' = 1 - current_player_index
                              /\ Record(cell[1], cell[2], color, "engine")
                         ELSE /\ UNCHANGED << board, current_player_index >>
                              /\ NoRecord
                ELSE /\ UNCHANGED << board, current_player_index >>
                     /\ NoRecord
    /\ UNCHANGED << variant, players, current_color, pc, rng, result >>

\* main.py 148: input() raises EOFError, which no handler catches.
MainEOF ==
    /\ variant = "main" /\ pc = "play"
    /\ find_valid_positions(board, color_of_index(current_player_index)) # << >>
    /\ ~ HasInput
    /\ pc' = after_EOFError(variant, pc)
    /\ NoRecord
    /\ UNCHANGED << variant, players, board, current_player_index, current_color,
                    script, free_left, rng, result >>

(***************************************************************************)
(* not_use_numpy.py and part_000: game_loop                                *)
(***************************************************************************)
\* loop_pass that tests the color that has just been found without a move.
loop_pass_no_switch(b, color) ==
    [color |-> -color, break |-> ~ has_valid_moves(b, color)]

\* loop_pass with the test for the end the wrong way round.
loop_pass_inverted(b, color) ==
    LET switched == -color
    IN  [color |-> switched, break |-> has_valid_moves(b, switched)]

\* not_use_numpy.py 94-100: the turn changes, then the test for the end.
loop_pass(b, color) ==
    LET switched == -color
    IN  [color |-> switched, break |-> ~ has_valid_moves(b, switched)]

LoopPass ==
    /\ variant \in {"not_use_numpy", "main_copy"} /\ pc = "play"
    /\ ~ has_valid_moves(board, current_color)
    /\ LET p == loop_pass(board, current_color)
       IN  /\ current_color' = p.color
           /\ pc' = IF p.break THEN "result" ELSE "play"
    /\ NoRecord
    /\ UNCHANGED << variant, players, board, current_player_index, script,
                    free_left, rng, result >>

\* not_use_numpy.py 108-117, part_000 78-87.
LoopInput ==
    /\ variant \in {"not_use_numpy", "main_copy"} /\ pc = "play"
    /\ has_valid_moves(board, current_color) = TRUE
    /\ \E line \in InputLines :
         LET cell == read_cell(variant, line)
         IN  /\ ConsumeInput
             /\ IF cell # << >>
                THEN LET r == make_move(board, cell[1], cell[2], current_color)
                     IN  IF r.ok
                         THEN /\ board' = r.board
                              /\ current_color' = -current_color
                              /\ Record(cell[1], cell[2], current_color, "engine")
                         ELSE /\ UNCHANGED << board, current_color >>
                              /\ NoRecord
                ELSE /\ UNCHANGED << board, current_color >>
                     /\ NoRecord
    /\ UNCHANGED << variant, players, current_player_index, pc, rng, result >>

LoopEOF ==
    /\ variant \in {"not_use_numpy", "main_copy"} /\ pc = "play"
    /\ has_valid_moves(board, current_color) = TRUE
    /\ ~ HasInput
    /\ pc' = after_EOFError(variant, pc)
    /\ NoRecord
    /\ UNCHANGED << variant, players, board, current_player_index, current_color,
                    script, free_left, rng, result >>

(***************************************************************************)
(* reversi.py Game.play with HumanPlayer and AIPlayer                      *)
(***************************************************************************)
\* pc = "play":          line 408, the call current_player.get_valid_positions
\* pc = "check":         line 411, the call made after a pass and switch_turn
\* pc = "prompt":        HumanPlayer's input loop, entered from line 408
\* pc = "prompt_check":  HumanPlayer's input loop, entered from line 411
switch_turn(color) == IF color = BLACK THEN WHITE ELSE BLACK

\* play_next without the break of line 413.
play_next_no_break(at, none, color) ==
    IF at \in {"play", "prompt"}
    THEN [pc |-> IF none THEN "check" ELSE "play", color |-> switch_turn(color)]
    ELSE [pc |-> "play", color |-> color]

\* Game.play 408-416 around one call of get_valid_positions: where the loop
\* goes and whose turn it is, given the call site (at), whether the call
\* returned (None, None), and the color to move.
\*   line 408 returned None:  switch_turn, then the call of line 411
\*   line 408 returned a cell: switch_turn (416), next iteration
\*   line 411 returned None:  break
\*   line 411 returned a cell: continue (414), next iteration
play_next(at, none, color) ==
    IF at \in {"play", "prompt"}
    THEN [pc |-> IF none THEN "check" ELSE "play", color |-> switch_turn(color)]
    ELSE [pc |-> IF none THEN "result" ELSE "play", color |-> color]

\* AIPlayer.get_valid_positions 259-274: the position the AI plays, given a
\* non-empty valid_positions and the generator's next state.
ai_best_position(valid_positions, kind, s) ==
    random_choice(select_best_positions(valid_positions, kind), s)

\* reversi.py 408-410: the call returns (None, None); the turn is switched.
RvFirstNone ==
    /\ variant = "reversi" /\ pc = "play"
    /\ find_valid_positions(board, current_color) = << >>
    /\ current_color' = play_next(pc, TRUE, current_color).color
    /\ pc' = play_next(pc, TRUE, current_color).pc
    /\ NoRecord
    /\ UNCHANGED << variant, players, board, current_player_index, script,
                    free_left, rng, result >>

\* reversi.py 411-413: the second call returns (None, None) too; break.
RvSecondNone ==
    /\ variant = "reversi" /\ pc = "check"
    /\ find_valid_positions(board, current_color) = << >>
    /\ current_color' = play_next(pc, TRUE, current_color).color
    /\ pc' = play_next(pc, TRUE, current_color).pc
    /\ NoRecord
    /\ UNCHANGED << variant, players, board, current_player_index, script,
                    free_left, rng, result >>

\* HumanPlayer.get_valid_positions 205-213: there is a valid position, so the
\* input loop is entered.
RvHumanStart ==
    /\ variant = "reversi" /\ pc \in {"play", "check"}
    /\ player_kind(current_color) = "human"
    /\ find_valid_positions(board, current_color) # << >>
    /\ pc' = IF pc = "play" THEN "prompt" ELSE "prompt_check"
    /\ NoRecord
    /\ UNCHANGED << variant, players, board, current_player_index, current_color,
                    script, free_left, rng, result >>

\* HumanPlayer.get_valid_positions 215-227: one pass of the input loop, and on
\* an accepted cell the return into Game.play.
RvHumanInput ==
    /\ variant = "reversi" /\ pc \in {"prompt", "prompt_check"}
    /\ \E line \in InputLines :
         LET cell == read_cell(variant, line)
         IN  /\ ConsumeInput
             /\ IF cell # << >>
                THEN LET r == place_and_flip_stones(board, cell[1], cell[2],
                                                    current_color)
                     IN  IF r.ok
                         THEN /\ board' = r.board
                              /\ current_color' =
                                     play_next(pc, FALSE, current_color).color
                              /\ pc' = play_next(pc, FALSE, current_color).pc
                              /\ Record(cell[1], cell[2], current_color, "move_source")
                         ELSE /\ UNCHANGED << board, current_color, pc >>
                              /\ NoRecord
                ELSE /\ UNCHANGED << board, current_color, pc >>
                     /\ NoRecord
    /\ UNCHANGED << variant, players, current_player_index, rng, result >>

\* reversi.py 217: input() raises EOFError, which no handler catches.
RvHumanEOF ==
    /\ variant = "reversi" /\ pc \in {"prompt", "prompt_check"}
    /\ ~ HasInput
    /\ pc' = after_EOFError(variant, pc)
    /\ NoRecord
    /\ UNCHANGED << variant, players, board, current_player_index, current_color,
                    script, free_left, rng, result >>

\* AIPlayer.get_valid_positions 254-279 with a valid position, and the return
\* into Game.play.
RvAIMove ==
    /\ variant = "reversi" /\ pc \in {"play", "check"}
    /\ player_kind(current_color) # "human"
    /\ \E valid_positions \in {find_valid_positions(board, current_color)} :
         /\ valid_positions # << >>
         /\ \E best_position \in
                {ai_best_position(valid_positions, player_kind(current_color),
                                  next_random(rng))} :
              \E r \in {place_and_flip_stones(board, best_position[1],
                                              best_position[2], current_color)} :
                 /\ rng' = next_random(rng)
                 /\ board' = r.board
                 /\ IF r.ok
                    THEN Record(best_position[1], best_position[2],
                                current_color, "move_source")
                    ELSE NoRecord
    /\ current_color' = play_next(pc, FALSE, current_color).color
    /\ pc' = play_next(pc, FALSE, current_color).pc
    /\ UNCHANGED << variant, players, current_player_index, script, free_left,
                    result >>

(***************************************************************************)
(* The result display                                                      *)
(***************************************************************************)
\* np.sum(board == color)
count(b, color) ==
    Cardinality({p \in Rows \X Cols : b[p[1]][p[2]] = color})

\* winner with a tie given to Black.
winner_no_draw(black_count, white_count) ==
    IF black_count >= white_count THEN "black" ELSE "white"

\* reversi.py 430-435, main.py 166-171, not_use_numpy.py 124, part_000 93.
winner(black_count, white_count) ==
    IF black_count > white_count THEN "black"
    ELSE IF white_count > black_count THEN "white"
    ELSE "draw"

ShowResult ==
    /\ pc = "result"
    /\ result' = winner(count(board, BLACK), count(board, WHITE))
    /\ pc' = "done"
    /\ NoRecord
    /\ UNCHANGED << variant, players, board, current_player_index, current_color,
                    script, free_left, rng >>

Next ==
    \/ MainPass \/ MainInput \/ MainEOF
    \/ LoopPass \/ LoopInput \/ LoopEOF
    \/ RvFirstNone \/ RvSecondNone
    \/ RvHumanStart \/ RvHumanInput \/ RvHumanEOF
    \/ RvAIMove
    \/ ShowResult

Spec == Init /\ [][Next]_vars

\* The steps that wait for nothing: a step of the program that reads no input
\* is taken once it can be.  A line of input may never come.
ProgramStep ==
    \/ MainPass \/ LoopPass
    \/ RvFirstNone \/ RvSecondNone \/ RvHumanStart \/ RvAIMove
    \/ ShowResult

FairSpec == Spec /\ WF_vars(ProgramStep)

(***************************************************************************)
(* Properties                                                              *)
(***************************************************************************)
Range(seq) == {seq[i] : i \in 1 .. Len(seq)}

Occupied(b) == count(b, BLACK) + count(b, WHITE)

NeitherCanMove ==
    /\ find_valid_positions(board, BLACK) = << >>
    /\ find_valid_positions(board, WHITE) = << >>

\* The board a legal placement is meant to leave: the played cell and the
\* cells of flips hold color, every other cell is as in b.
Placed(b, row, col, color, flips) ==
    [x \in Rows |-> [y \in Cols |->
        IF <<x, y>> = <<row, col>> \/ <<x, y>> \in Range(flips) THEN color
        ELSE b[x][y]]]

\* C1: on every reachable board of main.py and reversi.py, for every cell and
\* color, a cell that is no legal move (occupied, or empty with nothing to
\* flip) is refused by place_and_flip_stones and the board is left as it was.
C1_IllegalCellRefused ==
    variant \in {"main", "reversi"} =>
        \A row \in Rows : \A col \in Cols : \A color \in Colors :
            ~ can_flip(board, row, col, color) =>
                LET r == place_and_flip_stones(board, row, col, color)
                IN  ~ r.ok /\ r.board = board

\* C2: main.py leaves its loop only when neither color has a legal move.
C2_MainEndsOnlyWhenNeitherCanMove ==
    (variant = "main" /\ pc \in {"result", "done"}) => NeitherCanMove

\* C3: in reversi.py, when two stones in a row are placed by the same color,
\* the other color had no legal move on the board the second stone went on.
C3_TurnsAlternate ==
    [][ ( /\ variant = "reversi"
          /\ placed' = placed + 1
          /\ last_move # << >>
          /\ last_move'[3] = last_move[3] )
        => find_valid_positions(board, -last_move[3]) = << >> ]_vars

\* C4: on every reachable board, for every cell and color, an accepted
\* place_and_flip_stones and an accepted make_move leave the played cell and
\* the flip set of the board before the move in the mover's color and every
\* other cell as it was; and every placement a game makes has this effect.
C4_AcceptedMoveFrame ==
    /\ \A row \in Rows : \A col \in Cols : \A color \in Colors :
         LET flips == get_stones_to_flip(board, row, col, color)
             r == place_and_flip_stones(board, row, col, color)
             m == make_move(board, row, col, color)
         IN  /\ r.ok => r.board = Placed(board, row, col, color, flips)
             /\ m.ok => m.board = Placed(board, row, col, color, flips)
    /\ last_move # << >> =>
         board[last_move[1]][last_move[2]] = last_move[3]

\* A board on which make_move has just flipped stones and on which some
\* placement flips along two directions at once.
C4_Witness ==
    /\ variant = "not_use_numpy" /\ placed > 0
    /\ \E row \in Rows : \E col \in Cols : \E color \in Colors :
         /\ make_move(board, row, col, color).ok
         /\ Cardinality({i \in 1 .. Len(DIRECTIONS) :
                ray_flips(board, row, col, color, DIRECTIONS[i]) # << >>}) >= 2

\* C5: in every game loop, once neither color has a legal move the game goes
\* to its end: no step reads input, draws a random number, places a stone or
\* changes the board, and the result display is reached.
C5_DoublePassEnds ==
    /\ [][ NeitherCanMove =>
             /\ board' = board
             /\ script' = script /\ free_left' = free_left
             /\ rng' = rng
             /\ placed' = placed
             /\ pc' \in {"check", "result", "done"} ]_vars
    /\ [](NeitherCanMove => <>(pc = "done"))

\* A finished game on a board with stones of both colors and empty cells.
C5_Witness ==
    /\ NeitherCanMove /\ pc = "done" /\ placed > 0
    /\ count(board, BLACK) > 0 /\ count(board, WHITE) > 0
    /\ count(board, EMPTY) > 0

\* C6: in the loops that read a human's move through place_and_flip_stones
\* (main.py, reversi.py with a human), the occupied cells are the four of the
\* start plus one per accepted move, and at most 60 moves are accepted.
C6_OneEmptyCellPerMove ==
    (variant = "main" \/ (variant = "reversi" /\ HasHuman(players))) =>
        /\ Occupied(board) = 4 + placed
        /\ placed <= 60

\* C7: every game between two AI players reaches the result display, after at
\* most 60 placements.
C7_AIGameTerminates ==
    /\ AIvsAI => <>(pc = "done")
    /\ [](AIvsAI => placed <= 60)

\* An AI game that has ended after its 60th placement.
C7_Witness == AIvsAI /\ pc = "done" /\ placed = 60

MaxPriority(valid_positions, kind) ==
    CHOOSE m \in {priority_of(kind, p) : p \in Range(valid_positions)} :
        \A p \in Range(valid_positions) : priority_of(kind, p) <= m

\* C8: when an AI player is to move and has a legal move, best_positions is
\* exactly the set of legal moves of the highest priority among the legal
\* moves, the position drawn is one of them, and place_and_flip_stones accepts
\* every one of them.
C8_AIPicksBestLegalMove ==
    (variant = "reversi" /\ pc \in {"play", "check"}
        /\ player_kind(current_color) # "human") =>
        LET kind == player_kind(current_color)
            valid_positions == find_valid_positions(board, current_color)
            best_positions == select_best_positions(valid_positions, kind)
        IN  valid_positions # << >> =>
              /\ Range(best_positions) =
                   {p \in Range(valid_positions) :
                        priority_of(kind, p) = MaxPriority(valid_positions, kind)}
              /\ ai_best_position(valid_positions, kind, next_random(rng))
                     \in Range(best_positions)
              /\ \A p \in Range(best_positions) :
                     place_and_flip_stones(board, p[1], p[2], current_color).ok

\* An AI player is to move, several legal moves tie for the highest priority,
\* a legal move of lower priority comes before them and another after.
C8_Witness ==
    /\ variant = "reversi" /\ pc \in {"play", "check"}
    /\ player_kind(current_color) # "human"
    /\ LET kind == player_kind(current_color)
           valid_positions == find_valid_positions(board, current_color)
           best_positions == select_best_positions(valid_positions, kind)
       IN  /\ Len(best_positions) >= 2
           /\ Len(valid_positions) >= Len(best_positions) + 2
           /\ valid_positions[1] \notin Range(best_positions)
           /\ valid_positions[Len(valid_positions)] \notin Range(best_positions)

\* C9: the board is never written by a call made inside a player's
\* get_valid_positions.
C9_MoveSourceNeverWrites == writer # "move_source"

\* C10: in reversi.py and in the game_loop programs, the three counts add up to
\* 64, and a placement by color c that finds k stones to flip adds k + 1 to
\* c's count, takes k from the other color's and one from the empty cells.
C10_CountsChangeByFlipSet ==
    [][ ( /\ variant \in {"reversi", "not_use_numpy", "main_copy"}
          /\ placed' = placed + 1 )
        => LET row == last_move'[1]
               col == last_move'[2]
               c == last_move'[3]
               k == Len(get_stones_to_flip(board, row, col, c))
           IN  /\ count(board', c) = count(board, c) + k + 1
               /\ count(board', -c) = count(board, -c) - k
               /\ count(board', EMPTY) = count(board, EMPTY) - 1
               /\ count(board', BLACK) + count(board', WHITE)
                      + count(board', EMPTY) = 64 ]_vars

\* A ray from (row, col) along d that closes for color: k >= 1 stones of the
\* other color in a row, then a stone of color, all on the board.
RayCloses(b, row, col, color, d) ==
    \E k \in 1 .. 6 :
        /\ \A j \in 1 .. k :
              /\ is_on_board(row + j * d[1], col + j * d[2])
              /\ b[row + j * d[1]][col + j * d[2]] = -color
        /\ is_on_board(row + (k + 1) * d[1], col + (k + 1) * d[2])
        /\ b[row + (k + 1) * d[1]][col + (k + 1) * d[2]] = color

LegalCells(b, color) ==
    {p \in Rows \X Cols :
        /\ b[p[1]][p[2]] = EMPTY
        /\ \E i \in 1 .. Len(DIRECTIONS) :
               RayCloses(b, p[1], p[2], color, DIRECTIONS[i])}

RowMajor(seq) ==
    \A i \in 1 .. Len(seq) - 1 :
        8 * seq[i][1] + seq[i][2] < 8 * seq[i + 1][1] + seq[i + 1][2]

\* C11: on every reachable board and for both colors, find_valid_positions
\* and get_valid_moves list, in row-major order and each once, exactly the
\* empty cells from which some ray closes; has_valid_moves is true exactly
\* when the list is not empty.
C11_ValidPositionsAreLegalCells ==
    \A color \in Colors :
        LET valid_positions == find_valid_positions(board, color)
            valid_moves == get_valid_moves(board, color)
        IN  /\ Range(valid_positions) = LegalCells(board, color)
            /\ RowMajor(valid_positions)
            /\ valid_moves = valid_positions
            /\ has_valid_moves(board, color) <=> valid_positions # << >>

\* Both colors can move, some legal move closes a ray over two stones or more,
\* and some empty cell next to a stone of the other color is no legal move.
C11_Witness ==
    /\ \A color \in Colors : find_valid_positions(board, color) # << >>
    /\ \E color \in Colors : \E p \in LegalCells(board, color) :
          \E i \in 1 .. Len(DIRECTIONS) :
              Len(ray_flips(board, p[1], p[2], color, DIRECTIONS[i])) >= 2
    /\ \E color \in Colors : \E p \in (Rows \X Cols) \ LegalCells(board, color) :
          /\ board[p[1]][p[2]] = EMPTY
          /\ \E i \in 1 .. Len(DIRECTIONS) :
                /\ is_on_board(p[1] + DIRECTIONS[i][1], p[2] + DIRECTIONS[i][2])
                /\ board[p[1] + DIRECTIONS[i][1]][p[2] + DIRECTIONS[i][2]] = -color

\* A line that names no cell of the board: no two numbers, or a number
\* outside 0 .. 7.
NamesNoCell(line) ==
    line = << >> \/ line[1] \notin Rows \/ line[2] \notin Cols

LineRead == script' # script \/ free_left' # free_left

\* C12: a line that names no cell of the board is never handed to the board,
\* and a step that reads a line without a stone being placed leaves the board,
\* the color to move and the place in the loop as they were.
C12_RejectedInputChangesNothing ==
    /\ [](\A line \in AllLines :
             NamesNoCell(line) => read_cell(variant, line) = << >>)
    /\ [][ (LineRead /\ placed' = placed) =>
             /\ board' = board
             /\ ActiveColor' = ActiveColor
             /\ pc' = pc ]_vars

\* The one line read so far was rejected, and the loop still waits for Black
\* on the board of the start.
C12_Witness ==
    /\ variant \in {"main", "not_use_numpy"}
    /\ script = << >> /\ free_left = 0
    /\ placed = 0 /\ pc = "play" /\ ActiveColor = BLACK
    /\ board = create_board

\* C13: in all four programs, until the first stone is placed it is Black's
\* turn on a board whose only stones are White on (3,3) and (4,4) and Black on
\* (3,4) and (4,3), the 60 other cells being empty.
C13_InitialPosition ==
    placed = 0 =>
        /\ ActiveColor = BLACK
        /\ board[3][3] = WHITE /\ board[4][4] = WHITE
        /\ board[3][4] = BLACK /\ board[4][3] = BLACK
        /\ \A row \in Rows : \A col \in Cols :
              <<row, col>> \notin {<<3, 3>>, <<4, 4>>, <<3, 4>>, <<4, 3>>}
                  => board[row][col] = EMPTY
        /\ count(board, EMPTY) = 60

\* A game of part_000 before its first line of input, Black having the four
\* opening moves.
C13_Witness ==
    /\ variant = "main_copy" /\ placed = 0 /\ pc = "play"
    /\ free_left = MaxFree /\ script # << >>
    /\ find_valid_positions(board, ActiveColor) =
           << <<2, 3>>, <<3, 2>>, <<4, 5>>, <<5, 4>> >>

\* C14: the result shown at the end is Black's win exactly when the final
\* board holds more black stones than white, White's win exactly when it holds
\* more white than black, a draw exactly when it holds as many; and from the
\* moment the loop is left the board does not change.
C14_ResultComparesCounts ==
    /\ [](pc = "done" =>
            /\ result \in {"black", "white", "draw"}
            /\ (result = "black") <=> (count(board, BLACK) > count(board, WHITE))
            /\ (result = "white") <=> (count(board, WHITE) > count(board, BLACK))
            /\ (result = "draw") <=> (count(board, BLACK) = count(board, WHITE)))
    /\ [][ (pc \in {"result", "done"}) => board' = board ]_vars

\* A game that ended in a draw.
C14_Witness ==
    /\ pc = "done" /\ result = "draw"
    /\ count(board, BLACK) = count(board, WHITE)


\* The cells of the board by their place: the four corners, the cells that
\* touch a corner, the other cells of the rim, and the inner cells that touch
\* no corner.
CornerCells == {0, 7} \X {0, 7}

CornerAdjacentCells ==
    {p \in (Rows \X Cols) \ CornerCells :
        \E c \in CornerCells :
            /\ p[1] - c[1] \in -1 .. 1
            /\ p[2] - c[2] \in -1 .. 1}

EdgeCells ==
    {p \in (Rows \X Cols) \ (CornerCells \cup CornerAdjacentCells) :
        p[1] \in {0, 7} \/ p[2] \in {0, 7}}

InteriorCells ==
    (Rows \X Cols) \ (CornerCells \cup CornerAdjacentCells \cup EdgeCells)

HardToMove ==
    /\ variant = "reversi" /\ pc \in {"play", "check"}
    /\ player_kind(current_color) = "hard"

AtInput ==
    \/ /\ variant = "main" /\ pc = "play"
       /\ find_valid_positions(board, ActiveColor) # << >>
    \/ /\ variant \in {"not_use_numpy", "main_copy"} /\ pc = "play"
       /\ has_valid_moves(board, current_color)
    \/ /\ variant = "reversi" /\ pc \in {"prompt", "prompt_check"}

EndOfInput == MainEOF \/ LoopEOF \/ RvHumanEOF

\* C16: when a human is asked for a line and the input has ended, the program
\* can take a step, every step it takes ends the match with the board and the
\* count of placements as they were, and nothing happens after that.
C16_EndOfInputStopsMatch ==
    /\ []((AtInput /\ ~ HasInput) => ENABLED <<EndOfInput>>_vars)
    /\ [][ (AtInput /\ ~ HasInput) =>
             /\ pc' = "aborted"
             /\ board' = board
             /\ placed' = placed ]_vars
    /\ [][ pc # "aborted" ]_vars

\* A match stopped by the end of input in the middle of a game.
C16_Witness ==
    /\ pc = "aborted" /\ ~ HasInput
    /\ placed > 0 /\ count(board, EMPTY) > 0
    /\ find_valid_positions(board, ActiveColor) # << >>

\* C17: on every reachable board, for every cell and color, make_move and
\* place_and_flip_stones agree on whether the move is accepted and on the
\* board they leave.
C17_MakeMoveAgreesWithPlace ==
    \A row \in Rows : \A col \in Cols : \A color \in Colors :
        LET m == make_move(board, row, col, color)
            r == place_and_flip_stones(board, row, col, color)
        IN  m.ok = r.ok /\ m.board = r.board

InGameLoop == variant \in {"not_use_numpy", "main_copy"}

\* C18: in not_use_numpy.py and part_000 the loop is left only on a board
\* where neither color has a legal move; a pass is made only by a color
\* without a legal move and the loop goes on only for an opponent that has
\* one; every stone is placed by the color to move and hands the turn to the
\* other color; so the same color places two stones in a row only when the
\* other color had no legal move.
C18_GameLoopPass ==
    /\ []((InGameLoop /\ pc \in {"result", "done"}) => NeitherCanMove)
    /\ [][ (InGameLoop /\ placed' = placed /\ current_color' # current_color) =>
             /\ ~ has_valid_moves(board, current_color)
             /\ board' = board
             /\ pc' = "play" <=> has_valid_moves(board, current_color') ]_vars
    /\ [][ (InGameLoop /\ placed' = placed + 1) =>
             /\ last_move'[3] = current_color
             /\ current_color' = -current_color
             /\ (last_move # << >> /\ last_move[3] = current_color) =>
                    ~ has_valid_moves(board, -current_color) ]_vars

\* Black has passed, White has placed the ninth stone of the game, and it is
\* Black's turn again with a legal move.
C18_Witness ==
    /\ InGameLoop /\ pc = "play"
    /\ placed = 9 /\ last_move = <<2, 4, WHITE>>
    /\ current_color = BLACK
    /\ has_valid_moves(board, BLACK)

\* The board make_move works on when its for loop reaches the i-th direction:
\* the played stone is set and the directions before the i-th are done.
RECURSIVE BoardBeforeDirection(_, _, _, _, _)
BoardBeforeDirection(b, x, y, color, i) ==
    IF i = 1 THEN set_stone(b, x, y, color)
    ELSE make_move_dir(BoardBeforeDirection(b, x, y, color, i - 1),
                       x, y, color, DIRECTIONS[i - 1])

\* C19: on every reachable board, for every cell and color: where can_flip is
\* false make_move returns False and leaves the board as it was; where it is
\* true make_move returns True, each direction of its loop flips on the board
\* the earlier directions left exactly the stones that direction's ray holds
\* on the board before the move, and the board it leaves is the board before
\* the move with the played cell and that board's flip set in the mover's
\* color.
C19_MakeMoveAtomic ==
    \A x \in Rows : \A y \in Cols : \A color \in Colors :
        LET m == make_move(board, x, y, color)
        IN  IF fn_can_flip(board, x, y, color)
            THEN /\ m.ok
                 /\ m.board = Placed(board, x, y, color,
                                     get_stones_to_flip(board, x, y, color))
                 /\ \A i \in 1 .. Len(DIRECTIONS) :
                       LET before == BoardBeforeDirection(board, x, y, color, i)
                       IN  make_move_dir(before, x, y, color, DIRECTIONS[i]) =
                               flip_all(before,
                                        ray_flips(board, x, y, color, DIRECTIONS[i]),
                                        color)
            ELSE ~ m.ok /\ m.board = board

\* part_000 has placed a stone, and on the board some move flips stones along
\* three directions or more.
C19_Witness ==
    /\ variant = "main_copy" /\ last_move # << >>
    /\ \E x \in Rows : \E y \in Cols : \E color \in Colors :
          /\ fn_can_flip(board, x, y, color)
          /\ Cardinality({i \in 1 .. Len(DIRECTIONS) :
                 ray_flips(board, x, y, color, DIRECTIONS[i]) # << >>}) >= 3

\* One color has no stone on the board.
WipedOut == count(board, BLACK) = 0 \/ count(board, WHITE) = 0

\* C20: on every reachable board on which one color has no stone, neither
\* color has a legal move and the board accepts no stone on any cell; no step
\* from such a state places a stone, changes the board or asks for a move, and
\* the game goes to its result.
C20_WipedOutEndsGame ==
    /\ [](WipedOut =>
            /\ NeitherCanMove
            /\ \A row \in Rows : \A col \in Cols : \A color \in Colors :
                  /\ ~ place_and_flip_stones(board, row, col, color).ok
                  /\ ~ make_move(board, row, col, color).ok)
    /\ [][ WipedOut =>
             /\ placed' = placed
             /\ board' = board
             /\ pc' \in {"check", "result", "done"} ]_vars
    /\ [](WipedOut => <>(pc = "done"))

\* A game that ended with White's last stone flipped and empty cells left.
C20_Witness ==
    /\ pc = "done" /\ result = "black"
    /\ count(board, WHITE) = 0 /\ count(board, EMPTY) > 0

\* The cell a ray scan from (row, col) along d stops on.
RayStop(b, row, col, color, d) ==
    scan_ray(b, row + d[1], col + d[2], d, -color, << >>)

\* C21: on every reachable board, for every cell of the board, color and
\* direction: the reads of one ray scan are the opponent stones it passes and,
\* only when the scan stops on the board, the cell it stops on (once by the
\* while test, once by the if); and every subscript get_stones_to_flip,
\* place_and_flip_stones, both can_flip and make_move read or write has its
\* row and its column in 0 .. 7, so none is negative and none wraps around.
C21_ScanSubscriptsOnBoard ==
    \A row \in Rows : \A col \in Cols : \A color \in Colors :
        /\ \A i \in 1 .. Len(DIRECTIONS) :
              LET r == RayStop(board, row, col, color, DIRECTIONS[i])
              IN  ray_reads(board, row, col, color, DIRECTIONS[i]) =
                      r.temp_flip
                      \o (IF is_on_board(r.n_row, r.n_col)
                          THEN << <<r.n_row, r.n_col>>, <<r.n_row, r.n_col>> >>
                          ELSE << >>)
        /\ \A p \in Range(get_stones_to_flip_reads(board, row, col, color))
                    \cup Range(place_and_flip_stones_accesses(board, row, col, color))
                    \cup Range(can_flip_reads(board, row, col, color))
                    \cup Range(fn_can_flip_reads(board, row, col, color))
                    \cup Range(make_move_accesses(board, row, col, color)) :
              p[1] \in 0 .. 7 /\ p[2] \in 0 .. 7

\* A game has placed stones, and some legal move has a ray that passes over
\* the opponent's stones and leaves the board by its top or left edge, where
\* the cell a negative subscript would wrap to holds the mover's stone.
C21_Witness ==
    /\ placed > 0
    /\ \E row \in Rows : \E col \in Cols : \E color \in Colors :
          /\ fn_can_flip(board, row, col, color)
          /\ \E i \in 1 .. Len(DIRECTIONS) :
                LET r == RayStop(board, row, col, color, DIRECTIONS[i])
                IN  /\ r.temp_flip # << >>
                    /\ r.n_row = -1 \/ r.n_col = -1
                    /\ r.n_row < 8 /\ r.n_col < 8
                    /\ board[r.n_row % 8][r.n_col % 8] = color

====
